---- MODULE Spec2Model ----
(***************************************************************************)
(* A model of helpers.py of the optic classifier: the phase encode/decode  *)
(* transforms and the quadrant classification at the end of                *)
(* display_example.                                                        *)
(*                                                                         *)
(* Numbers.  A float64 is modelled as an exact real of the form            *)
(* (n/d) * pi^p, kept as the record [n, d, p] in lowest terms; every value *)
(* the transforms produce from the modelled inputs has this form, and      *)
(* float64 agrees with the exact value on them up to the 1e-9 tolerance    *)
(* the specification allows (pi*255/pi is exactly 255.0 in float64, and    *)
(* exp(1j*pi) is -1 + 1.2e-16j, below the tolerance).  A complex128 is a   *)
(* pair [re, im] of such reals.                                            *)
(*                                                                         *)
(* Arrays.  A numpy array is an object [dtype, shape, data] with the data  *)
(* flat in row-major order.  Objects live in a heap (a sequence indexed by *)
(* object id); every numpy operation that returns a new array allocates a  *)
(* new object, so that aliasing and in-place writes are observable.        *)
(***************************************************************************)
EXTENDS Integers, Sequences, FiniteSets, TLC

VARIABLES
    mem,       \* the array objects the caller holds, by object id
    made,      \* made[i]: the call that returned object i ("input": supplied)
    call,      \* the last call: function, argument id, returned id (0: None)
    printed,   \* the line the last call printed ("" when none)
    quarters   \* the quadrant sums the last display_example computed

vars == <<mem, made, call, printed, quarters>>

(* ------------------------------ bounds -------------------------------- *)
\* longest 1-D array the caller supplies
MaxLen == 2
\* most array objects the caller holds (its input plus the results of calls)
MaxObj == 3
\* largest number of rows / columns of an intensity array
MaxDim == 5
\* most unit deposits at the corners of an intensity array
MaxCorner == 2

(* ------------------------------ reals --------------------------------- *)
RECURSIVE GCD(_, _)
GCD(a, b) == IF b = 0 THEN a ELSE GCD(b, a % b)

AbsInt(k) == IF k < 0 THEN -k ELSE k

\* the real (n/d) * pi^p in lowest terms, d > 0
R(n, d, p) ==
    IF n = 0 THEN [n |-> 0, d |-> 1, p |-> 0]
    ELSE LET g == GCD(AbsInt(n), d)
         IN  [n |-> n \div g, d |-> d \div g, p |-> p]

Zero == R(0, 1, 0)
IntR(k) == R(k, 1, 0)

\* np.pi, and the rational 355/113 used where a decimal value of it is needed
Pi == R(1, 1, 1)
PiApprox == <<355, 113>>

MulInt(x, k) == R(x.n * k, x.d, x.p)
DivPi(x) == R(x.n, x.d, x.p - 1)
NegR(x) == R(-x.n, x.d, x.p)
AbsR(x) == R(AbsInt(x.n), x.d, x.p)
SignR(x) == IF x.n > 0 THEN 1 ELSE IF x.n < 0 THEN -1 ELSE 0

\* x + y for reals with the same power of pi (or zero)
AddR(x, y) ==
    IF x.n = 0 THEN y
    ELSE IF y.n = 0 THEN x
    ELSE R(x.n * y.d + y.n * x.d, x.d * y.d, x.p)

\* x > y for rationals (p = 0)
GreaterR(x, y) == x.n * y.d > y.n * x.d

\* the value as a fraction <<num, den>>, den > 0, for p in {-1, 0, 1}
Fraction(x) ==
    IF x.p = 0 THEN <<x.n, x.d>>
    ELSE IF x.p = 1 THEN <<x.n * PiApprox[1], x.d * PiApprox[2]>>
    ELSE <<x.n * PiApprox[2], x.d * PiApprox[1]>>

\* np.round on a float64: nearest integer, halves to the even one
RoundR(x) ==
    LET f == Fraction(x)
        fl == f[1] \div f[2]
        twice == 2 * (f[1] - fl * f[2])
    IN  IF twice < f[2] THEN fl
        ELSE IF twice > f[2] THEN fl + 1
        ELSE IF fl % 2 = 0 THEN fl ELSE fl + 1

(* ------------------------------ arrays -------------------------------- *)
Arr(dtype, shape, data) == [dtype |-> dtype, shape |-> shape, data |-> data]

Cplx(re, im) == [re |-> re, im |-> im]

\* a new object on the heap h; the result is the heap and the object's id
Alloc(h, a) == [h |-> Append(h, a), r |-> Len(h) + 1]

\* a new array of dtype dt with the shape of h[a] and the elements `data`
Elementwise(h, a, dt, data) == Alloc(h, Arr(dt, h[a].shape, data))

(* --------------------------- numpy operations ------------------------- *)
\* one element converted from dtype `from` to dtype `to`
Cast(e, from, to) ==
    IF to = "complex128"
    THEN IF from = "complex128" THEN e ELSE Cplx(e, Zero)
    ELSE IF to = "uint8" THEN IntR(e.n % 256)
    ELSE e

\* arr.astype(dt): always a copy
astype(h, a, dt) ==
    LET conv(e) == Cast(e, h[a].dtype, dt) IN
        Elementwise(h, a, dt, [i \in DOMAIN h[a].data |-> conv(h[a].data[i])])

\* variant: the comparison is >= instead of >
np_where_ge(h, a, t, x, y) ==
    LET pick(e) == IF ~GreaterR(IntR(t), e) THEN x ELSE y IN
        Elementwise(h, a, "float64", [i \in DOMAIN h[a].data |-> pick(h[a].data[i])])

\* variant: the two branches are exchanged
np_where_swapped(h, a, t, x, y) ==
    LET pick(e) == IF GreaterR(e, IntR(t)) THEN y ELSE x IN
        Elementwise(h, a, "float64", [i \in DOMAIN h[a].data |-> pick(h[a].data[i])])

\* np.where(arr > t, x, y)
np_where_gt(h, a, t, x, y) ==
    LET pick(e) == IF GreaterR(e, IntR(t)) THEN x ELSE y IN
        Elementwise(h, a, "float64", [i \in DOMAIN h[a].data |-> pick(h[a].data[i])])

\* arr * k for an integer k
np_mul(h, a, k) ==
    LET f(e) == IF h[a].dtype = "complex128"
                THEN Cplx(MulInt(e.re, k), MulInt(e.im, k))
                ELSE MulInt(e, k)
    IN
        Elementwise(h, a, h[a].dtype, [i \in DOMAIN h[a].data |-> f(h[a].data[i])])

\* arr / np.pi
np_div_pi(h, a) ==
    LET f(e) == IF h[a].dtype = "complex128"
                THEN Cplx(DivPi(e.re), DivPi(e.im))
                ELSE DivPi(e)
    IN
        Elementwise(h, a, h[a].dtype, [i \in DOMAIN h[a].data |-> f(h[a].data[i])])

\* 1j * arr for a complex array
np_mul_1j(h, a) ==
    LET f(e) == Cplx(NegR(e.im), e.re) IN
        Elementwise(h, a, "complex128", [i \in DOMAIN h[a].data |-> f(h[a].data[i])])

\* exp(i*t) for t a multiple of pi/2
CisR(t) ==
    LET q == IF t.n = 0 THEN 0 ELSE (t.n * (2 \div t.d)) % 4
    IN  IF q = 0 THEN Cplx(IntR(1), Zero)
        ELSE IF q = 1 THEN Cplx(Zero, IntR(1))
        ELSE IF q = 2 THEN Cplx(IntR(-1), Zero)
        ELSE Cplx(Zero, IntR(-1))

\* np.exp(arr) for a complex array with zero real parts
np_exp(h, a) ==
    LET f(e) == CisR(e.im) IN
        Elementwise(h, a, "complex128", [i \in DOMAIN h[a].data |-> f(h[a].data[i])])

\* the principal argument of a complex number on an axis (np.angle of 0 is 0)
AngleOf(z) ==
    IF SignR(z.im) > 0 THEN R(1, 2, 1)
    ELSE IF SignR(z.im) < 0 THEN R(-1, 2, 1)
    ELSE IF SignR(z.re) < 0 THEN Pi
    ELSE Zero

\* np.angle(arr)
np_angle(h, a) ==
    LET f(e) == AngleOf(e) IN
        Elementwise(h, a, "float64", [i \in DOMAIN h[a].data |-> f(h[a].data[i])])

\* arr / 1j for a float64 array: x / (0 + 1j) = 0 - x j
np_div_1j(h, a) ==
    LET f(e) == Cplx(Zero, NegR(e)) IN
        Elementwise(h, a, "complex128", [i \in DOMAIN h[a].data |-> f(h[a].data[i])])

\* variant: the real part instead of the magnitude
np_real(h, a) ==
    LET f(e) == e.re IN
        Elementwise(h, a, "float64", [i \in DOMAIN h[a].data |-> f(h[a].data[i])])

\* |z| for a complex number on an axis
Magnitude(z) == IF z.re.n = 0 THEN AbsR(z.im) ELSE AbsR(z.re)

\* np.abs(arr) for a complex array
np_abs(h, a) ==
    LET f(e) == Magnitude(e) IN
        Elementwise(h, a, "float64", [i \in DOMAIN h[a].data |-> f(h[a].data[i])])

\* np.round(arr)
np_round(h, a) ==
    LET f(e) == IntR(RoundR(e)) IN
        Elementwise(h, a, "float64", [i \in DOMAIN h[a].data |-> f(h[a].data[i])])

(* ---------------------------- the transforms -------------------------- *)
threshold == 127

\* variant: thresholds the caller's array in place and returns it
convert_to_pi_scale_inplace(h, a) ==
    [ h |-> [h EXCEPT ![a] =
                Arr("float64", h[a].shape,
                    [i \in DOMAIN h[a].data |->
                        IF GreaterR(h[a].data[i], IntR(threshold)) THEN Zero ELSE Pi])],
      r |-> a ]

convert_to_pi_scale(h, a) ==
    LET s1 == astype(h, a, "float64")
    IN  np_where_gt(s1.h, s1.r, threshold, Zero, Pi)

\* variant: scales by 256 instead of 255
convert_to_255_by256(h, a) ==
    LET s1 == np_mul(h, a, 256)
    IN  np_div_pi(s1.h, s1.r)

convert_to_255(h, a) ==
    LET s1 == np_mul(h, a, 255)
    IN  np_div_pi(s1.h, s1.r)

from_phase_modulation(h, a) ==
    LET magnitude == np_abs(h, a)
        pixel_values == convert_to_255(magnitude.h, magnitude.r)
        rounded == np_round(pixel_values.h, pixel_values.r)
    IN  astype(rounded.h, rounded.r, "uint8")

expj(h, a) ==
    LET arr_c == astype(h, a, "complex128")
        s2 == np_mul_1j(arr_c.h, arr_c.r)
    IN  np_exp(s2.h, s2.r)

phase_modulation(h, a) ==
    LET s1 == convert_to_pi_scale(h, a)
    IN  expj(s1.h, s1.r)

inv_expj(h, a) ==
    LET angles == np_angle(h, a)
    IN  np_div_1j(angles.h, angles.r)

inv_phase_modulation(h, a) ==
    LET s1 == inv_expj(h, a)
    IN  convert_to_255(s1.h, s1.r)

(* ---------------------------- display_example ------------------------- *)
\* variant: the midpoint rounded up
MidUp(k) == (k + 1) \div 2

\* X // 2
Mid(k) == k \div 2

\* arr[r0:r1, c0:c1] of a 2-D array (0-based, half-open, bounds within range)
Slice(arr, r0, r1, c0, c1) ==
    LET rows == r1 - r0
        cols == c1 - c0
        Y == arr.shape[2]
    IN  Arr(arr.dtype, <<rows, cols>>,
            [k \in 1..(rows * cols) |->
                arr.data[(r0 + (k - 1) \div cols) * Y + c0 + ((k - 1) % cols) + 1]])

RECURSIVE SumSeq(_, _)
SumSeq(data, k) == IF k = 0 THEN Zero ELSE AddR(SumSeq(data, k - 1), data[k])

\* np.sum(arr)
np_sum(arr) == SumSeq(arr.data, Len(arr.data))

\* the four quadrants display_example slices out of intensity
upper_left(I) == Slice(I, 0, Mid(I.shape[1]), 0, Mid(I.shape[2]))
upper_right(I) == Slice(I, 0, Mid(I.shape[1]), Mid(I.shape[2]), I.shape[2])
lower_left(I) == Slice(I, Mid(I.shape[1]), I.shape[1], 0, Mid(I.shape[2]))
lower_right(I) == Slice(I, Mid(I.shape[1]), I.shape[1], Mid(I.shape[2]), I.shape[2])

upper_left_intens(I) == np_sum(upper_left(I))
upper_right_intens(I) == np_sum(upper_right(I))
lower_left_intens(I) == np_sum(lower_left(I))
lower_right_intens(I) == np_sum(lower_right(I))

\* variant: the last two entries both hold the lower-left sum
QuartersListDup(I) ==
    << upper_right_intens(I), upper_left_intens(I),
       lower_left_intens(I), lower_left_intens(I) >>

\* the list `quarters`, in the order the code builds it
QuartersList(I) ==
    << upper_right_intens(I), upper_left_intens(I),
       lower_right_intens(I), lower_left_intens(I) >>

\* Python's max over a non-empty list: the first of the largest items
RECURSIVE PyMax(_, _)
PyMax(xs, k) ==
    IF k = 1 THEN xs[1]
    ELSE LET m == PyMax(xs, k - 1)
         IN  IF GreaterR(xs[k], m) THEN xs[k] ELSE m

\* variant: the upper-right test comes first
ClassifyRightFirst(I) ==
    LET m == PyMax(QuartersList(I), 4)
    IN  IF m = upper_right_intens(I) THEN "Predicted digit: 1"
        ELSE IF m = upper_left_intens(I) THEN "Predicted digit: 0"
        ELSE IF m = lower_left_intens(I) THEN "Predicted digit: 2"
        ELSE "Predicted digit: 3"

\* the if/elif chain that prints the prediction
Classify(I) ==
    LET m == PyMax(QuartersList(I), 4)
    IN  IF m = upper_left_intens(I) THEN "Predicted digit: 0"
        ELSE IF m = upper_right_intens(I) THEN "Predicted digit: 1"
        ELSE IF m = lower_left_intens(I) THEN "Predicted digit: 2"
        ELSE "Predicted digit: 3"

\* display_example(image, optimal_mask, intensity): the sums it computes and
\* the line it prints.  The matplotlib calls between them only draw; image
\* and optimal_mask are used by nothing else.
display_example(I) ==
    [ upper_left  |-> upper_left_intens(I),
      upper_right |-> upper_right_intens(I),
      lower_left  |-> lower_left_intens(I),
      lower_right |-> lower_right_intens(I),
      out         |-> Classify(I) ]

(* ------------------------- the caller's inputs ------------------------ *)
\* pixel values at the threshold and at the ends of the range
PixelVals == {0, 127, 128, 255}

\* axis-aligned complex samples of magnitude 0..3
FieldVals ==
    { Cplx(Zero, Zero), Cplx(IntR(1), Zero), Cplx(IntR(-1), Zero),
      Cplx(Zero, IntR(1)), Cplx(Zero, IntR(-1)),
      Cplx(IntR(2), Zero), Cplx(Zero, IntR(-3)) }

\* angles that are multiples of pi/2
AngleVals == {R(k, 2, 1) : k \in {-1, 0, 1, 2, 4}}

Vectors(dtype, vals) ==
    UNION { {Arr(dtype, <<len>>, d) : d \in [1..len -> vals]} : len \in 0..MaxLen }

\* a 1-D array laid out as one row or as one column
AsRow(v) == Arr(v.dtype, <<1, Len(v.data)>>, v.data)
AsColumn(v) == Arr(v.dtype, <<Len(v.data), 1>>, v.data)

\* short pixel arrays over PixelVals, 1-D and 2-D, and every single pixel value
PixelInputs ==
    LET vs == Vectors("uint8", {IntR(v) : v \in PixelVals})
    IN  vs \cup {AsRow(v) : v \in vs} \cup {AsColumn(v) : v \in vs}
           \cup {Arr("uint8", <<1>>, <<IntR(v)>>) : v \in 0..255}

FieldInputs == Vectors("complex128", FieldVals)

AngleInputs == Vectors("float64", AngleVals)

\* the flat index of a corner of an X-by-Y array (0: no cell)
Corner(X, Y, c) ==
    IF c = 0 \/ X * Y = 0 THEN 0
    ELSE IF c = 1 THEN 1
    ELSE IF c = 2 THEN Y
    ELSE IF c = 3 THEN (X - 1) * Y + 1
    ELSE X * Y

\* a non-negative X-by-Y intensity array: one unit at cell `probe`, and one
\* unit at each of the corners cs[1], cs[2], ... (0: nothing)
Deposit(X, Y, probe, cs) ==
    Arr("float64", <<X, Y>>,
        [k \in 1..(X * Y) |->
            IntR((IF probe = k THEN 1 ELSE 0)
                 + Cardinality({i \in DOMAIN cs : Corner(X, Y, cs[i]) = k}))])

(* ------------------------------ the calls ----------------------------- *)
NoQuarters == [upper_left |-> Zero, upper_right |-> Zero,
               lower_left |-> Zero, lower_right |-> Zero, out |-> ""]

\* the caller starts with one array: pixels, a complex field, angles, or an
\* intensity array
Init ==
    /\ \/ \E a \in PixelInputs \cup FieldInputs \cup AngleInputs : mem = <<a>>
       \/ \E X \in 0..MaxDim, Y \in 0..MaxDim :
            \E probe \in 0..(X * Y), cs \in [1..MaxCorner -> 0..4] :
                mem = << Deposit(X, Y, probe, cs) >>
    /\ made = << [fn |-> "input", arg |-> 0] >>
    /\ call = [fn |-> "", arg |-> 0, ret |-> 0]
    /\ printed = ""
    /\ quarters = NoQuarters

\* a call of fn on object a returned with heap s.h and result s.r: the caller
\* keeps its own objects as the call left them, and the returned object
Return(fn, a, s) ==
    LET n == Len(mem)
        fresh == s.r > n
    IN  /\ mem' = IF fresh THEN Append(SubSeq(s.h, 1, n), s.h[s.r])
                  ELSE SubSeq(s.h, 1, n)
        /\ made' = IF fresh THEN Append(made, [fn |-> fn, arg |-> a]) ELSE made
        /\ call' = [fn |-> fn, arg |-> a, ret |-> IF fresh THEN n + 1 ELSE s.r]
        /\ printed' = ""
        /\ quarters' = NoQuarters

IsAngle(x) == x.n = 0 \/ x.p = 1
IsQuarterTurn(x) == x.n = 0 \/ (x.p = 1 /\ x.d \in {1, 2})
Elems(a) == {mem[a].data[i] : i \in DOMAIN mem[a].data}

ConvertToPiScale ==
    \E a \in DOMAIN mem :
        /\ Len(mem) < MaxObj
        /\ mem[a].dtype = "uint8"
        /\ Return("convert_to_pi_scale", a, convert_to_pi_scale(mem, a))

ConvertTo255 ==
    \E a \in DOMAIN mem :
        /\ Len(mem) < MaxObj
        /\ mem[a].dtype = "float64" /\ (\A e \in Elems(a) : IsAngle(e))
        /\ Return("convert_to_255", a, convert_to_255(mem, a))

Expj ==
    \E a \in DOMAIN mem :
        /\ Len(mem) < MaxObj
        /\ mem[a].dtype = "float64" /\ (\A e \in Elems(a) : IsQuarterTurn(e))
        /\ Return("expj", a, expj(mem, a))

PhaseModulation ==
    \E a \in DOMAIN mem :
        /\ Len(mem) < MaxObj
        /\ mem[a].dtype = "uint8"
        /\ Return("phase_modulation", a, phase_modulation(mem, a))

InvExpj ==
    \E a \in DOMAIN mem :
        /\ Len(mem) < MaxObj
        /\ mem[a].dtype = "complex128"
        /\ Return("inv_expj", a, inv_expj(mem, a))

InvPhaseModulation ==
    \E a \in DOMAIN mem :
        /\ Len(mem) < MaxObj
        /\ mem[a].dtype = "complex128"
        /\ Return("inv_phase_modulation", a, inv_phase_modulation(mem, a))

\* the magnitudes must land in 0..255: the uint8 cast of a float outside
\* that range is platform-dependent
FitsUint8(z) ==
    /\ Magnitude(z).p \in {0, 1}
    /\ RoundR(DivPi(MulInt(Magnitude(z), 255))) \in 0..255

FromPhaseModulation ==
    \E a \in DOMAIN mem :
        /\ Len(mem) < MaxObj
        /\ mem[a].dtype = "complex128" /\ (\A e \in Elems(a) : FitsUint8(e))
        /\ Return("from_phase_modulation", a, from_phase_modulation(mem, a))

IsRational(x) == x.p = 0

DisplayExample ==
    \E a \in DOMAIN mem :
        /\ Len(mem[a].shape) = 2
        /\ mem[a].dtype = "float64" /\ (\A e \in Elems(a) : IsRational(e))
        /\ quarters' = display_example(mem[a])
        /\ printed' = display_example(mem[a]).out
        /\ call' = [fn |-> "display_example", arg |-> a, ret |-> 0]
        /\ UNCHANGED <<mem, made>>

Next ==
    \/ ConvertToPiScale
    \/ ConvertTo255
    \/ Expj
    \/ PhaseModulation
    \/ InvExpj
    \/ InvPhaseModulation
    \/ FromPhaseModulation
    \/ DisplayExample

Spec == Init /\ [][Next]_vars

(* ------------------------------- claims ------------------------------- *)
\* the value of a uint8 element
PixelOf(e) == e.n

Label(k) == <<"Predicted digit: 0", "Predicted digit: 1",
              "Predicted digit: 2", "Predicted digit: 3">>[k + 1]

\* the objects a call of fn returned
MadeBy(fn) == {i \in DOMAIN mem : made[i].fn = fn}

\* the argument of the call that returned object i
ArgOf(i) == mem[made[i].arg]

\* the flat indices of the cells in rows rs and columns cs of an array with Y columns
Cells(Y, rs, cs) == {(r - 1) * Y + c : r \in rs, c \in cs}

RECURSIVE SumCells(_, _)
SumCells(I, S) ==
    IF S = {} THEN 0
    ELSE LET k == CHOOSE k \in S : TRUE
         IN  I.data[k].n + SumCells(I, S \ {k})

C2_Priority ==
    call.fn = "display_example" =>
        LET ul == quarters.upper_left.n
            ur == quarters.upper_right.n
            ll == quarters.lower_left.n
            lr == quarters.lower_right.n
            best == CHOOSE v \in {ul, ur, ll, lr} : \A w \in {ul, ur, ll, lr} : w <= v
        IN  /\ printed = IF ul = best THEN Label(0)
                         ELSE IF ur = best THEN Label(1)
                         ELSE IF ll = best THEN Label(2)
                         ELSE Label(3)
            /\ (ul = best /\ (ul = ur \/ ul = lr)) => printed = Label(0)

\* C2 witness: upper-left tied with lower-right for a positive maximum, label 0
C2_Witness ==
    /\ call.fn = "display_example"
    /\ quarters.upper_left = quarters.lower_right
    /\ quarters.upper_left.n > 0
    /\ quarters.upper_right.n = 0
    /\ quarters.lower_left.n = 0
    /\ printed = Label(0)

\* the quadrant sums of an intensity array, cut at floor(X/2) and floor(Y/2)
QuadrantSums(I) ==
    LET X == I.shape[1]
        Y == I.shape[2]
        hx == X \div 2
        hy == Y \div 2
    IN  [ ul |-> SumCells(I, Cells(Y, 1..hx, 1..hy)),
          ur |-> SumCells(I, Cells(Y, 1..hx, (hy + 1)..Y)),
          ll |-> SumCells(I, Cells(Y, (hx + 1)..X, 1..hy)),
          lr |-> SumCells(I, Cells(Y, (hx + 1)..X, (hy + 1)..Y)) ]

\* C3: an array whose mass lies in one quadrant gets that quadrant's label,
\* and label 3 is printed exactly when the lower-right sum is strictly greater
\* than each of the other three.
C3_SingleQuadrant ==
    call.fn = "display_example" =>
        LET q == QuadrantSums(mem[call.arg])
        IN  /\ (q.ul > 0 /\ q.ur = 0 /\ q.ll = 0 /\ q.lr = 0) => printed = Label(0)
            /\ (q.ul = 0 /\ q.ur > 0 /\ q.ll = 0 /\ q.lr = 0) => printed = Label(1)
            /\ (q.ul = 0 /\ q.ur = 0 /\ q.ll > 0 /\ q.lr = 0) => printed = Label(2)
            /\ (q.ul = 0 /\ q.ur = 0 /\ q.ll = 0 /\ q.lr > 0) => printed = Label(3)
            /\ printed = Label(3) <=> (q.lr > q.ul /\ q.lr > q.ur /\ q.lr > q.ll)

\* C3 witness: all the mass in the lower-right quadrant, label 3
C3_Witness ==
    /\ call.fn = "display_example"
    /\ LET q == QuadrantSums(mem[call.arg])
       IN  q.ul = 0 /\ q.ur = 0 /\ q.ll = 0 /\ q.lr > 0
    /\ printed = Label(3)

\* C4: the quadrants are cut at row floor(X/2) and column floor(Y/2); every
\* cell lies in exactly one of them (the four sums add up to the total), and
\* an odd dimension gives its extra row or column to the lower / right
\* quadrants: 5x5 splits into 2x2, 2x3, 3x2 and 3x3.
C4_QuadrantCut ==
    call.fn = "display_example" =>
        LET I == mem[call.arg]
            X == I.shape[1]
            Y == I.shape[2]
            q == QuadrantSums(I)
        IN  /\ quarters.upper_left = IntR(q.ul)
            /\ quarters.upper_right = IntR(q.ur)
            /\ quarters.lower_left = IntR(q.ll)
            /\ quarters.lower_right = IntR(q.lr)
            /\ quarters.upper_left.n + quarters.upper_right.n
                 + quarters.lower_left.n + quarters.lower_right.n
                   = SumCells(I, 1..(X * Y))
            /\ upper_left(I).shape = <<X \div 2, Y \div 2>>
            /\ upper_right(I).shape = <<X \div 2, Y - Y \div 2>>
            /\ lower_left(I).shape = <<X - X \div 2, Y \div 2>>
            /\ lower_right(I).shape = <<X - X \div 2, Y - Y \div 2>>
            /\ I.shape = <<5, 5>> =>
                /\ upper_left(I).shape = <<2, 2>>
                /\ upper_right(I).shape = <<2, 3>>
                /\ lower_left(I).shape = <<3, 2>>
                /\ lower_right(I).shape = <<3, 3>>

\* C4 witness: a 5x5 array whose only unit sits in the middle cell (row 2,
\* column 2), counted in the lower-right quadrant
C4_Witness ==
    /\ call.fn = "display_example"
    /\ mem[call.arg].shape = <<5, 5>>
    /\ mem[call.arg].data[13] = IntR(1)
    /\ SumCells(mem[call.arg], 1..25) = 1
    /\ quarters.lower_right = IntR(1)

UnitMagnitude(z) ==
    /\ z.re.p = 0 /\ z.im.p = 0 /\ z.re.d = 1 /\ z.im.d = 1
    /\ z.re.n * z.re.n + z.im.n * z.im.n = 1

AllUnit(F) == \A k \in DOMAIN F.data : UnitMagnitude(F.data[k])

\* C6 as stated: from_phase_modulation of a field of unit magnitudes is a
\* uint8 array holding 255 everywhere.
C6_AsStated ==
    \A i \in MadeBy("from_phase_modulation") :
        AllUnit(ArgOf(i)) =>
            /\ mem[i].dtype = "uint8"
            /\ \A k \in DOMAIN mem[i].data : mem[i].data[k] = IntR(255)

\* C6 amended: from_phase_modulation of a field of unit magnitudes is a
\* uint8 array holding 81 = round(255 / pi) everywhere.
C6_UnitGives81 ==
    \A i \in MadeBy("from_phase_modulation") :
        AllUnit(ArgOf(i)) =>
            /\ mem[i].dtype = "uint8"
            /\ mem[i].shape = ArgOf(i).shape
            /\ DOMAIN mem[i].data = DOMAIN ArgOf(i).data
            /\ \A k \in DOMAIN mem[i].data : mem[i].data[k] = IntR(81)

\* C6 witness: the field <<i, -1>> was demodulated to <<81, 81>>
C6_Witness ==
    \E i \in MadeBy("from_phase_modulation") :
        /\ ArgOf(i).data = <<Cplx(Zero, IntR(1)), Cplx(IntR(-1), Zero)>>
        /\ mem[i].data = <<IntR(81), IntR(81)>>

\* C7 as stated: display_example on an array with X = 0 or Y = 0 fails and
\* prints no label.
C7_DegenerateFails ==
    (/\ call.fn = "display_example"
     /\ (mem[call.arg].shape[1] = 0 \/ mem[call.arg].shape[2] = 0))
        => printed \notin {Label(0), Label(1), Label(2), Label(3)}

\* the principal argument, in (-pi, pi], of a complex number on an axis
PrincipalArg(z) ==
    IF z.im.n > 0 THEN R(1, 2, 1)
    ELSE IF z.im.n < 0 THEN R(-1, 2, 1)
    ELSE IF z.re.n < 0 THEN R(1, 1, 1)
    ELSE Zero

\* element k of an array as a complex value
ValueAt(arr, k) ==
    IF arr.dtype = "complex128" THEN arr.data[k] ELSE Cplx(arr.data[k], Zero)

\* C8 as stated: inv_expj(F) holds the principal argument of each element of
\* F as a real angle, and inv_phase_modulation(F) holds that real angle times
\* 255 / pi.
C8_RealAngles ==
    /\ \A i \in MadeBy("inv_expj") :
        \A k \in DOMAIN mem[i].data :
            ValueAt(mem[i], k) = Cplx(PrincipalArg(ArgOf(i).data[k]), Zero)
    /\ \A i \in MadeBy("inv_phase_modulation") :
        \A k \in DOMAIN mem[i].data :
            ValueAt(mem[i], k) =
                Cplx(DivPi(MulInt(PrincipalArg(ArgOf(i).data[k]), 255)), Zero)

C10_NoMutation ==
    [][ /\ \A i \in DOMAIN mem : i \in DOMAIN mem' /\ mem'[i] = mem[i]
        /\ call'.ret # 0 => call'.ret \notin DOMAIN mem
        /\ \A i, j \in DOMAIN mem' :
            (made'[i] = made'[j] /\ made'[i].fn # "input") => mem'[i] = mem'[j]
      ]_vars

\* C10 witness: convert_to_pi_scale ran twice on a non-empty input that is
\* still what the caller supplied
C10_Witness ==
    /\ Len(mem) = 3
    /\ made[2] = [fn |-> "convert_to_pi_scale", arg |-> 1]
    /\ made[3] = made[2]
    /\ mem[1] = Arr("uint8", <<2>>, <<IntR(0), IntR(255)>>)
    /\ mem[2] = mem[3]

====
